---- MODULE Spec2Model ----
(***************************************************************************)
(* Model of the multi-vector (ColBERT) retrieval index of fz_openqa:       *)
(*   ColbertIndex._search_batch  (datamodules/index/colbert.py)            *)
(*   SearchResult                (datamodules/index/search_result.py)      *)
(* Python arrays are 0-based; the sequences below are 1-based, document    *)
(* ids (pid) and token slots keep their 0-based values.                    *)
(***************************************************************************)
EXTENDS Integers, Sequences, FiniteSets, TLC

VARIABLES
    vectors,      \* ColbertIndex.vectors / vectors_table: one row of token vectors per document
    in_memory,    \* ColbertIndex.in_memory: tensor backing (TRUE) or table backing (FALSE)
    engine,       \* behaviour of the ANN structure behind self._index
    emb2pid,      \* ColbertIndex._emb2pid, <<>> models None
    pc,           \* "idle": no call in progress; "done": the call is at its return statement
    k,            \* argument k of the last search
    q_vectors,    \* query token vectors [Q][Tq] of the last search
    tok_indices,  \* local tok_indices of the last search, [Q][Tq * p]
    pids,         \* local pids of the last search after _get_unique_pids, [Q][W]
    scores,       \* local scores of the last search, [Q][W]
    result,       \* the SearchResult returned by the last search
    raised,       \* exception raised by the last operation, "none" if it returned
    index_searched, \* whether the last search called self._index.search
    a,            \* left operand of a combination (self)
    b,            \* right operand of a combination (other)
    third,        \* third SearchResult of a chain of unions
    u,            \* SearchResult returned by a.union(b) or a + b
    chain,        \* SearchResults returned by the unions of a, b and c
    indexes,      \* FetchDocuments: the requested row ids
    max_chunk_size, \* FetchDocuments: largest number of rows of one select
    store,        \* behaviour of corpus_dataset.select
    selects,      \* the row ids requested from corpus_dataset.select, call by call
    rows,         \* local rows of _call_batch, as returned by _fetch_rows
    fetched,      \* the batch returned by FetchDocuments._call_batch
    emb2pid_builds, \* number of times emb2pid was built since the index was built
    docs,         \* indexing script: the documents, each with its row_idx and token count
    ntotal,       \* indexing script: index.ntotal, the number of vectors in the ANN index
    tok2doc,      \* indexing script: the token-to-document list
    calls,        \* indexing script: the calls made on the ANN index, in order
    tok_engine,   \* FaissTokenEngine: its emb2pid and whether its ANN index is loaded
    disk,         \* FaissTokenEngine: what save wrote under self.path
    tok_hits,     \* FaissTokenEngine.search: pids and scores of the token hits
    dedup,        \* FaissTokenEngine.search: what _deduplicate_pids returned
    ctor_index,   \* index argument of a SearchResult constructed without scores
    ctor_format   \* type of that argument: "list", "ndarray" or "tensor"

indexVars == <<vectors, in_memory, engine>>

unionVars == <<a, b, third, u, chain>>

fetchVars == <<indexes, max_chunk_size, store, selects, rows, fetched>>

scriptVars == <<docs, ntotal, tok2doc, calls>>

tokEngineVars == <<tok_engine, disk, tok_hits, dedup>>

ctorVars == <<ctor_index, ctor_format>>

vars == <<vectors, in_memory, engine, emb2pid, pc, k, q_vectors, tok_indices,
          pids, scores, result, raised, index_searched, a, b, third, u, chain,
          indexes, max_chunk_size, store, selects, rows, fetched,
          emb2pid_builds, docs, ntotal, tok2doc, calls, tok_engine, disk, tok_hits, dedup,
          ctor_index, ctor_format>>

----------------------------------------------------------------------------
(* Bounds *)

\* largest k of a search
MaxK == 3

\* largest number of queries in a batch
MaxQ == 2

\* largest number of token vectors of a query
MaxTq == 2

\* largest number of query token vectors in one batch (queries x tokens)
MaxTokens == 4

\* largest number of index entries of the two operands of a union together
MaxUnionCells == 6

\* largest number of row ids requested from FetchDocuments in one call
MaxIndexes == 4

\* largest max_chunk_size of a FetchDocuments call
MaxChunk == 3

\* largest row id of the corpus dataset read by FetchDocuments
MaxRow == 2

----------------------------------------------------------------------------
(* Generic helpers *)

Min(x, y) == IF x <= y THEN x ELSE y

Max(x, y) == IF x >= y THEN x ELSE y

SetMax(S) == CHOOSE x \in S : \A y \in S : y <= x

SetMin(S) == CHOOSE x \in S : \A y \in S : x <= y

RECURSIVE SumSeq(_)
SumSeq(s) == IF s = <<>> THEN 0 ELSE Head(s) + SumSeq(Tail(s))

RECURSIVE Fact(_)
Fact(n) == IF n <= 1 THEN 1 ELSE n * Fact(n - 1)

Range(s) == {s[i] : i \in DOMAIN s}

\* ascending sequence of the elements of a finite set of integers
RECURSIVE SortedSeq(_)
SortedSeq(S) == IF S = {} THEN <<>> ELSE <<SetMin(S)>> \o SortedSeq(S \ {SetMin(S)})

\* x[i] of a tensor / ndarray, a negative i counting from the end
PyIndex(arr, i) == IF i < 0 THEN arr[Len(arr) + i + 1] ELSE arr[i + 1]

\* index of value v in sequence s (v occurs in s)
IndexOf(s, v) == CHOOSE i \in DOMAIN s : s[i] = v

----------------------------------------------------------------------------
(* Floating point scores: -inf, or a finite value kept exactly in units of *)
(* 1/ScoreUnit so that a mean over up to MaxTq tokens stays an integer.    *)

ScoreUnit == Fact(MaxTq)

NegInf == [fin |-> FALSE, val |-> 0]

Fin(v) == [fin |-> TRUE, val |-> v]

One == Fin(ScoreUnit)

ScoreGt(x, y) == x.fin /\ (~y.fin \/ x.val > y.val)

ScoreGe(x, y) == ~ScoreGt(y, x)

----------------------------------------------------------------------------
(* Token vectors, corpora and queries *)

Zero == <<0, 0, 0, 0>>

E1 == <<1, 0, 0, 0>>

E2 == <<0, 1, 0, 0>>

TwoE2 == <<0, 2, 0, 0>>

Dot(x, y) == x[1] * y[1] + x[2] * y[2] + x[3] * y[3] + x[4] * y[4]

IsPadding(x) == \A i \in DOMAIN x : x[i] = 0

\* three documents holding the same two token embeddings
CorpusSame == <<<<E1, E2>>, <<E1, E2>>, <<E1, E2>>>>

\* three documents with different MaxSim scores
CorpusMixed == <<<<E1, E1>>, <<E2, TwoE2>>, <<E1, E2>>>>

Corpora == {CorpusSame, CorpusMixed}

QVecs == {Zero, E1, E2}

\* token vectors of a dimension that is not the dimension of the index
MismatchedQVecs == {<<1, 0, 0>>, <<1, 0, 0, 0, 0>>}

\* batches of one query of one token whose dimension is not that of the index
MismatchedBatches == [1..1 -> [1..1 -> MismatchedQVecs]]

\* query batches [Q][T]: at most MaxQ queries of at most MaxTq tokens each,
\* at most MaxTokens token vectors in all
QueryBatches ==
    UNION {[1..s[1] -> [1..s[2] -> QVecs]] :
              s \in {t \in (1..MaxQ) \X (1..MaxTq) : t[1] * t[2] <= MaxTokens}}

----------------------------------------------------------------------------
(* ANN engine behind self._index.  The library is outside the repository:  *)
(* it ranks the stored token slots by inner product with the query vector, *)
(* the order of equally similar slots is fixed by the build (engine.tie),  *)
(* and a structure that visits too few slots (engine.complete = FALSE)     *)
(* leaves the last requested neighbour unfound, its id being -1.           *)

NumDocs(vecs) == Len(vecs)

TokensPerDoc(vecs) == Len(vecs[1])

Slots(vecs) == 0..(NumDocs(vecs) * TokensPerDoc(vecs) - 1)

\* vector stored in a token slot of the flattened corpus
SlotVector(vecs, s) ==
    vecs[(s \div TokensPerDoc(vecs)) + 1][(s % TokensPerDoc(vecs)) + 1]

Better(vecs, eng, x, s, t) ==
    \/ Dot(x, SlotVector(vecs, s)) > Dot(x, SlotVector(vecs, t))
    \/ /\ Dot(x, SlotVector(vecs, s)) = Dot(x, SlotVector(vecs, t))
       /\ IF eng.tie = "low" THEN s <= t ELSE s >= t

RECURSIVE Ranked(_, _, _, _, _)
Ranked(vecs, eng, x, S, n) ==
    IF n = 0 \/ S = {} THEN <<>>
    ELSE LET best == CHOOSE s \in S : \A t \in S : Better(vecs, eng, x, s, t)
         IN  <<best>> \o Ranked(vecs, eng, x, S \ {best}, n - 1)

\* dimension of the vectors stored in the index
Dim(vecs) == Len(vecs[1][1])

\* index.search(x, depth) checks the dimension of x against the dimension of
\* the index before searching (assert d == self.d) and raises AssertionError
IndexSearchAsserts(vecs, x) == Len(x) # Dim(vecs)

\* ids returned by index.search(x, depth) for one query vector
IndexSearch(vecs, eng, x, depth) ==
    LET hits == Ranked(vecs, eng, x, Slots(vecs), IF eng.complete THEN depth ELSE depth - 1)
    IN  [i \in 1..depth |-> IF i <= Len(hits) THEN hits[i] ELSE -1]

----------------------------------------------------------------------------
(* ColbertIndex *)

\* np.arange(num_rows)
Arange(num_rows) == [r \in 1..num_rows |-> r - 1]

\* np.repeat(arr[:, None], vector_length, axis=1): row r holds arr[r]
\* vector_length times
RepeatColumns(arr, vector_length) ==
    [r \in DOMAIN arr |-> [t \in 1..vector_length |-> arr[r]]]

\* matrix.reshape(-1): the rows one after the other
RECURSIVE ReshapeFlat(_)
ReshapeFlat(matrix) ==
    IF matrix = <<>> THEN <<>> ELSE Head(matrix) \o ReshapeFlat(Tail(matrix))

\* mutant of build_emb2pid_from_vectors: the row ids are tiled, the whole
\* range being repeated vector_length times, instead of each id
build_emb2pid_from_vectors_Tiled(vecs) ==
    ReshapeFlat([t \in 1..TokensPerDoc(vecs) |-> Arange(NumDocs(vecs))])

\* _build_emb2pid_from_vectors: arange(num_rows), each id repeated
\* vector_length times, vector_length being the length of the first document
build_emb2pid_from_vectors(vecs) ==
    ReshapeFlat(RepeatColumns(Arange(NumDocs(vecs)), TokensPerDoc(vecs)))

\* mutant of FaissDepth: the depth is not capped at 10
FaissDepth_NoCap(kk) == Max(1, kk \div 2)

\* mutant of FaissDepth: the depth is k instead of k // 2
FaissDepth_NoHalving(kk) == Min(10, Max(1, kk))

\* p = min(10, max(1, k // 2))
FaissDepth(kk) == Min(10, Max(1, kk \div 2))

\* _query_to_embedding_ids: search every token vector, view as [num_queries, -1]
query_to_embedding_ids(vecs, eng, Q, faiss_depth) ==
    [i \in DOMAIN Q |->
        [c \in 1..(Len(Q[i]) * faiss_depth) |->
            IndexSearch(vecs, eng, Q[i][((c - 1) \div faiss_depth) + 1], faiss_depth)
                [((c - 1) % faiss_depth) + 1]]]

\* pids = emb2pid[tok_indices]
LookupPids(e2p, tok) ==
    [i \in DOMAIN tok |-> [c \in DOMAIN tok[i] |-> PyIndex(e2p, tok[i][c])]]

\* F.pad(r, (0, max_length - len(r)), value=fill_value)
PadRight(r, length, fill_value) ==
    [c \in 1..length |-> IF c <= Len(r) THEN r[c] ELSE fill_value]

\* mutant of get_unique_pids: the rows are padded without removing duplicates
get_unique_pids_NoUnique(p, fill_value) ==
    LET max_length == SetMax({Len(p[i]) : i \in DOMAIN p})
    IN  [i \in DOMAIN p |-> PadRight(p[i], max_length, fill_value)]

\* _get_unique_pids: torch.unique of every row, padded to the longest row
get_unique_pids(p, fill_value) ==
    LET upids == [i \in DOMAIN p |-> SortedSeq(Range(p[i]))]
        max_length == SetMax({Len(upids[i]) : i \in DOMAIN upids})
    IN  [i \in DOMAIN p |-> PadRight(upids[i], max_length, fill_value)]

\* mutant of RetrieveFromTable: the unique vectors are not mapped back to
\* the positions of their pids
RetrieveFromTable_NoInverse(table, p) ==
    LET unique_pids == SortedSeq(UNION {Range(p[i]) : i \in DOMAIN p})
        clamped == [n \in DOMAIN unique_pids |->
                        IF unique_pids[n] < 0 THEN 0 ELSE unique_pids[n]]
        unique_pid_vectors == [n \in DOMAIN clamped |-> table[clamped[n] + 1]]
    IN  [i \in DOMAIN p |-> [x \in DOMAIN p[i] |->
            unique_pid_vectors[((x - 1) % Len(unique_pids)) + 1]]]

\* _retrieve_pid_vectors, vectors given as a pyarrow table
RetrieveFromTable(table, p) ==
    LET unique_pids == SortedSeq(UNION {Range(p[i]) : i \in DOMAIN p})
        clamped == [n \in DOMAIN unique_pids |->
                        IF unique_pids[n] < 0 THEN 0 ELSE unique_pids[n]]
        unique_pid_vectors == [n \in DOMAIN clamped |-> table[clamped[n] + 1]]
    IN  [i \in DOMAIN p |-> [c \in DOMAIN p[i] |->
            unique_pid_vectors[IndexOf(unique_pids, p[i][c])]]]

\* _retrieve_pid_vectors, vectors given as a tensor: vectors[pids]
RetrieveFromTensor(tensor, p) ==
    [i \in DOMAIN p |-> [c \in DOMAIN p[i] |-> PyIndex(tensor, p[i][c])]]

retrieve_pid_vectors(p, vecs, inMemory) ==
    IF inMemory THEN RetrieveFromTensor(vecs, p) ELSE RetrieveFromTable(vecs, p)

\* max over the document tokens of the similarity to one query token
MaxOverDocTokens(x, doc) == SetMax({Dot(x, doc[d]) : d \in DOMAIN doc})

\* einsum, max(axis=-1), mean(axis=-1) for one (query, candidate) pair
MeanMaxSim(q, doc) ==
    Fin((SumSeq([t \in DOMAIN q |-> MaxOverDocTokens(q[t], doc)]) * ScoreUnit) \div Len(q))

\* mutant of MaskNegativePids: the scores of the sentinel candidates are kept
MaskNegativePids_NoMask(sc, p) == sc

\* scores[pids < 0] = -inf
MaskNegativePids(sc, p) ==
    [i \in DOMAIN sc |-> [c \in DOMAIN sc[i] |-> IF p[i][c] < 0 THEN NegInf ELSE sc[i][c]]]

\* step 7 of _search_batch
MaxSimScores(Q, d_vectors, p) ==
    MaskNegativePids(
        [i \in DOMAIN p |-> [c \in DOMAIN p[i] |-> MeanMaxSim(Q[i], d_vectors[i][c])]], p)

\* the orders of the positions S of row that put a largest score first
RECURSIVE LargestFirst(_, _)
LargestFirst(row, S) ==
    IF S = {} THEN {<<>>}
    ELSE UNION {{<<c>> \o rest : rest \in LargestFirst(row, S \ {c})} :
                   c \in {x \in S : \A y \in S : ScoreGe(row[x], row[y])}}

\* the orders of the positions S of row that put a smallest score first
RECURSIVE SmallestFirst(_, _)
SmallestFirst(row, S) ==
    IF S = {} THEN {<<>>}
    ELSE UNION {{<<c>> \o rest : rest \in SmallestFirst(row, S \ {c})} :
                   c \in {x \in S : \A y \in S : ScoreGe(row[y], row[x])}}

\* mutant of ArgsortDescending: the scores are sorted in ascending order
ArgsortDescending_Ascending(row) == SmallestFirst(row, DOMAIN row)

\* np.argsort(-scores, axis=-1): the default sort is not stable, so every
\* permutation that puts the scores in non-increasing order is an outcome
ArgsortDescending(row) == LargestFirst(row, DOMAIN row)

\* [:, :k]
TakeColumns(row, kk) == SubSeq(row, 1, Min(kk, Len(row)))

\* gather(index=maxsim_idx, dim=1)
Gather(arr, idx) == [i \in DOMAIN arr |-> [c \in DOMAIN idx[i] |-> arr[i][idx[i][c]]]]

----------------------------------------------------------------------------
(* SearchResult *)

NoResult == [index |-> <<>>, score |-> <<>>, k |-> 0]

\* rows = None
NoRows == [none |-> TRUE, idx |-> <<>>]

\* pad_to_length: pad with fill_token up to length, then lst[:length]
pad_to_length(lst, length, fill_token) ==
    [c \in 1..length |-> IF c <= Len(lst) THEN lst[c] ELSE fill_token]

\* mutant of pad_second_dim: the array is returned without padding
pad_second_dim_NoPad(arr, kk, fill_token) == arr

\* pad_second_dim, ndarray / Tensor branch: unchanged when the width is k
pad_second_dim(arr, kk, fill_token) ==
    [i \in DOMAIN arr |->
        IF Len(arr[i]) = kk THEN arr[i]
        ELSE [c \in 1..kk |-> IF c <= Len(arr[i]) THEN arr[i][c] ELSE fill_token]]

\* masked_fill, ndarray branch with a scalar new_value and no condition
\* (always_true): np.where(True, full_like(arr, new_value), arr)
masked_fill(arr, new_value) ==
    [i \in DOMAIN arr |-> [c \in DOMAIN arr[i] |-> new_value]]

\* SearchResult.__init__ with fill_missing_values=False; hasScore = FALSE
\* models score=None
SearchResultInit(index, score, hasScore, kk) ==
    IF hasScore /\ \E i \in DOMAIN score : Len(score[i]) > kk
    THEN [raised |-> "ValueError", value |-> NoResult]
    ELSE LET sc == IF hasScore THEN score ELSE masked_fill(index, Fin(0))
         IN  [raised |-> "none",
              value  |-> [index |-> pad_second_dim(index, kk, -1),
                          score |-> pad_second_dim(sc, kk, NegInf),
                          k     |-> kk]]

----------------------------------------------------------------------------
(* ColbertIndex._search_batch *)

\* the outcomes of maxsim_idx = np.argsort(-scores, axis=-1)[:, :k]
MaxSimIdx(sc, kk) ==
    LET orders == [i \in DOMAIN sc |-> ArgsortDescending(sc[i])]
    IN  {[i \in DOMAIN sc |-> TakeColumns(f[i], kk)] :
            f \in {g \in [DOMAIN sc -> UNION {orders[i] : i \in DOMAIN sc}] :
                      \A i \in DOMAIN sc : g[i] \in orders[i]}}

\* self.dataset_size = len(dataset), passed to every SearchResult of a search
DatasetSize(vecs) == NumDocs(vecs)

\* mutant of Emb2pidBuilt: the map is built on every access
Emb2pidBuilt_Always == TRUE

\* whether an access to the emb2pid property builds the map:
\* if self._emb2pid is None
Emb2pidBuilt == emb2pid = <<>>

\* the emb2pid property: built on first access, cached afterwards
Emb2pidProperty == IF Emb2pidBuilt THEN build_emb2pid_from_vectors(vectors) ELSE emb2pid

\* steps 4 to 9: retrieve the candidate vectors, score, take the top k, pack
ScoreAndPack(Q, cand, kk) ==
    LET d_vectors == retrieve_pid_vectors(cand, vectors, in_memory)
        sc        == MaxSimScores(Q, d_vectors, cand)
    IN  \E maxsim_idx \in MaxSimIdx(sc, kk) :
            LET sr == SearchResultInit(Gather(cand, maxsim_idx),
                                       Gather(sc, maxsim_idx), TRUE, kk)
            IN  /\ pids' = cand
                /\ scores' = sc
                /\ result' = sr.value
                /\ raised' = sr.raised

Search ==
    /\ pc = "idle"
    /\ \E kk \in 1..MaxK, Q \in QueryBatches :
        LET e2p == Emb2pidProperty
            tok == query_to_embedding_ids(vectors, engine, Q, FaissDepth(kk))
            cand == get_unique_pids(LookupPids(e2p, tok), -1)
        IN  /\ emb2pid' = e2p
            /\ emb2pid_builds' = emb2pid_builds + (IF Emb2pidBuilt THEN 1 ELSE 0)
            /\ k' = kk
            /\ q_vectors' = Q
            /\ tok_indices' = tok
            /\ index_searched' = TRUE
            /\ ScoreAndPack(Q, cand, kk)
            /\ pc' = "done"
            /\ UNCHANGED <<indexVars, unionVars, fetchVars, scriptVars, tokEngineVars, ctorVars>>

\* _search_batch when the query vectors returned by predict_queries do not
\* have the dimension of the index: steps 0 to 2 run as for any batch, the
\* error is raised inside self._index.search
SearchMismatched ==
    /\ pc = "idle"
    /\ \E kk \in 1..MaxK, Q \in MismatchedBatches :
        /\ \E i \in DOMAIN Q : \E t \in DOMAIN Q[i] : IndexSearchAsserts(vectors, Q[i][t])
        /\ emb2pid' = Emb2pidProperty
        /\ emb2pid_builds' = emb2pid_builds + (IF Emb2pidBuilt THEN 1 ELSE 0)
        /\ k' = kk
        /\ q_vectors' = Q
        /\ index_searched' = TRUE
        /\ raised' = "AssertionError"
        /\ pc' = "failed"
        /\ UNCHANGED <<indexVars, tok_indices, pids, scores, result, unionVars, fetchVars, scriptVars, tokEngineVars, ctorVars>>

Engines == [tie : {"low", "high"}, complete : {TRUE, FALSE}]

\* no SearchResult has been combined
NoCombination ==
    /\ a = NoResult
    /\ b = NoResult
    /\ third = NoResult
    /\ u = NoResult
    /\ chain = <<>>

\* the indexing script has not run
NoScript ==
    /\ docs = <<>>
    /\ ntotal = 0
    /\ tok2doc = <<>>
    /\ calls = <<>>

\* engine.emb2pid = None
NoMap == [none |-> TRUE, map |-> <<>>]

\* no token search has been made
NoHits == [pids |-> <<>>, scores |-> <<>>]

\* no FaissTokenEngine has been built and nothing has been saved
NoTokEngine ==
    /\ tok_engine = [emb2pid |-> NoMap, index_up |-> FALSE]
    /\ disk = [saved |-> FALSE, emb2pid |-> NoMap, index_up |-> FALSE]
    /\ tok_hits = NoHits
    /\ dedup = NoHits

\* no SearchResult has been constructed without scores
NoCtor ==
    /\ ctor_index = <<>>
    /\ ctor_format = "ndarray"

\* no FetchDocuments call has been made
NoFetch ==
    /\ indexes = <<>>
    /\ max_chunk_size = 0
    /\ store = "exact"
    /\ selects = <<>>
    /\ rows = NoRows
    /\ fetched = NoRows

Init ==
    /\ vectors \in Corpora
    /\ in_memory \in BOOLEAN
    /\ engine \in Engines
    /\ emb2pid = <<>>
    /\ emb2pid_builds = 0
    /\ pc = "idle"
    /\ k = 0
    /\ q_vectors = <<>>
    /\ tok_indices = <<>>
    /\ pids = <<>>
    /\ scores = <<>>
    /\ result = NoResult
    /\ raised = "none"
    /\ index_searched = FALSE
    /\ NoCombination
    /\ NoFetch
    /\ NoScript
    /\ NoTokEngine
    /\ NoCtor

\* the call returns: the SearchResult goes to the caller, the index keeps
\* nothing of the call but its cached emb2pid
Return ==
    /\ pc \in {"done", "failed", "rebuilt"}
    /\ pc' = "idle"
    /\ k' = 0
    /\ q_vectors' = <<>>
    /\ tok_indices' = <<>>
    /\ pids' = <<>>
    /\ scores' = <<>>
    /\ result' = NoResult
    /\ raised' = "none"
    /\ index_searched' = FALSE
    /\ UNCHANGED <<indexVars, emb2pid, emb2pid_builds, unionVars, fetchVars, scriptVars, tokEngineVars, ctorVars>>

\* a corpus of two documents, indexed by a rebuild only
CorpusRebuilt == <<<<E1, E2>>, <<E2, E1>>>>

\* the engine is rebuilt over a dataset: the index holds the new vectors and
\* the cached token-to-document map is invalidated
Rebuild ==
    /\ pc = "idle"
    /\ vectors' \in Corpora \cup {CorpusRebuilt}
    /\ engine' \in Engines
    /\ emb2pid' = <<>>
    /\ emb2pid_builds' = 0
    /\ pc' = "rebuilt"
    /\ UNCHANGED <<in_memory, k, q_vectors, tok_indices, pids, scores, result, raised,
                   index_searched, unionVars, fetchVars, scriptVars, tokEngineVars,
                   ctorVars>>

Next == Search \/ SearchMismatched \/ Return \/ Rebuild

Spec == Init /\ [][Next]_vars

----------------------------------------------------------------------------
(* Properties of search *)

Queries == DOMAIN q_vectors

\* the documents owning at least one token hit of query i
CandidateSet(i) == {PyIndex(emb2pid, tok_indices[i][c]) : c \in DOMAIN tok_indices[i]}

\* the valid document ids of a row of ids
ValidIds(row) == {row[c] : c \in DOMAIN row} \ {-1}

\* C1: for every k >= 1 and every batch of Q queries the returned
\* SearchResult has index and score arrays of shape (Q, k), whatever the
\* number of candidates found per query
C1_ShapeQk ==
    pc = "done" =>
        /\ raised = "none"
        /\ result.k = k
        /\ Len(result.index) = Len(q_vectors)
        /\ Len(result.score) = Len(q_vectors)
        /\ \A i \in Queries : Len(result.index[i]) = k /\ Len(result.score[i]) = k

\* one query of the batch found fewer candidates than k, another exactly k
C1_Witness ==
    /\ pc = "done"
    /\ raised = "none"
    /\ \E i, j \in Queries :
          /\ Cardinality(CandidateSet(i)) < k
          /\ Cardinality(CandidateSet(j)) = k

\* C2: a query with fewer than k distinct candidate documents gets a row
\* holding those candidates first, every remaining column being (-1, -inf)
C2_FewerThanK ==
    pc = "done" =>
        \A i \in Queries :
            LET n == Cardinality(CandidateSet(i))
            IN  n < k =>
                  /\ {result.index[i][c] : c \in 1..n} = CandidateSet(i)
                  /\ \A c \in 1..n : result.score[i][c].fin
                  /\ \A c \in (n + 1)..k :
                        result.index[i][c] = -1 /\ result.score[i][c] = NegInf

\* batch of 2 queries, depth 1, k = 3, a query with a single candidate while
\* the other query found two
C2_Witness ==
    /\ pc = "done"
    /\ k = 3
    /\ Len(q_vectors) = 2
    /\ FaissDepth(k) = 1
    /\ \E i, j \in Queries :
          /\ Cardinality(CandidateSet(i)) = 1
          /\ Cardinality(CandidateSet(j)) = 2
          /\ result.index[i][2] = -1 /\ result.score[i][2] = NegInf
          /\ result.index[i][3] = -1 /\ result.score[i][3] = NegInf

\* the score the index computes for query i and document pid
MaxSimOf(i, pid) == MeanMaxSim(q_vectors[i], vectors[pid + 1])

\* C3: the returned pairs are the k highest-scoring candidates in
\* non-increasing score order, no candidate left out scores strictly higher
\* than a returned one, and each score is the MaxSim score of the pid at
\* the same position
C3_TopK ==
    pc = "done" =>
        \A i \in Queries :
            LET row == result.index[i]
            IN  /\ ValidIds(row) \subseteq CandidateSet(i)
                /\ Cardinality(ValidIds(row)) = Min(k, Cardinality(CandidateSet(i)))
                /\ \A c, d \in 1..k :
                      c < d => ScoreGe(result.score[i][c], result.score[i][d])
                /\ \A c \in 1..k :
                      result.score[i][c] =
                          IF row[c] >= 0 THEN MaxSimOf(i, row[c]) ELSE NegInf
                /\ \A pid \in CandidateSet(i) \ ValidIds(row) :
                      \A c \in 1..k : ScoreGe(result.score[i][c], MaxSimOf(i, pid))

\* more candidates than k, and the one left out scores strictly lower than
\* a returned candidate with a higher id
C3_Witness ==
    /\ pc = "done"
    /\ \E i \in Queries :
          /\ Cardinality(CandidateSet(i)) > k
          /\ \E pid \in CandidateSet(i) \ ValidIds(result.index[i]) :
                /\ ScoreGt(result.score[i][1], MaxSimOf(i, pid))
                /\ pid < result.index[i][1]

\* C4: whenever two candidates of the same query have the same score, the
\* lower document id ranks first
C4_TiesByLowerId ==
    pc = "done" =>
        \A i \in Queries :
            \A c, d \in 1..k :
                (/\ c < d
                 /\ result.index[i][c] >= 0
                 /\ result.index[i][d] >= 0
                 /\ result.score[i][c] = result.score[i][d])
                    => result.index[i][c] < result.index[i][d]

NotPadding(x) == ~IsPadding(x)

\* the genuine (not all-zero) tokens of a query
GenuineTokens(q) == SelectSeq(q, NotPadding)

\* mean over the genuine query tokens of the maximum similarity to a
\* token of the document
GenuineMeanMaxSim(q, doc) ==
    LET g == GenuineTokens(q)
    IN  Fin((SumSeq([t \in DOMAIN g |-> MaxOverDocTokens(g[t], doc)]) * ScoreUnit)
                \div Len(g))

\* C6: the MaxSim score of a (query, candidate) pair is the mean over the
\* genuine query tokens only; padding tokens neither add to the sum nor
\* count in the denominator
C6_MeanOverGenuineTokens ==
    pc = "done" =>
        \A i \in Queries :
            GenuineTokens(q_vectors[i]) # <<>> =>
                \A c \in DOMAIN pids[i] :
                    pids[i][c] >= 0 =>
                        scores[i][c] = GenuineMeanMaxSim(q_vectors[i], vectors[pids[i][c] + 1])

\* C7: a query made only of padding tokens has score -inf at every position
\* of its result row
C7_AllPaddingQuery ==
    pc = "done" =>
        \A i \in Queries :
            GenuineTokens(q_vectors[i]) = <<>> =>
                \A c \in 1..k : result.score[i][c] = NegInf

\* candidate row and scores of the search of the single query q
SoloCandidates(q) ==
    get_unique_pids(
        LookupPids(emb2pid,
                   query_to_embedding_ids(vectors, engine, <<q>>, FaissDepth(k))), -1)

SoloScores(q) ==
    MaxSimScores(<<q>>, retrieve_pid_vectors(SoloCandidates(q), vectors, in_memory),
                 SoloCandidates(q))

\* C8: padding tokens are excluded from search: compared with the same
\* query without its padding tokens, the candidate documents are the same
\* and every candidate has the same score
C8_PaddingExcluded ==
    pc = "done" =>
        \A i \in Queries :
            LET g == GenuineTokens(q_vectors[i])
            IN  (g # <<>> /\ g # q_vectors[i]) =>
                  /\ ValidIds(pids[i]) = ValidIds(SoloCandidates(g)[1])
                  /\ \A c \in DOMAIN pids[i] :
                        pids[i][c] >= 0 =>
                            \A d \in DOMAIN SoloCandidates(g)[1] :
                                SoloCandidates(g)[1][d] = pids[i][c] =>
                                    SoloScores(g)[1][d] = scores[i][c]

\* 3 documents holding [1,0,0,0] and [0,1,0,0], one query with the single
\* token [1,0,0,0], k = 2
C9_Scenario ==
    /\ pc = "done"
    /\ vectors = CorpusSame
    /\ q_vectors = <<<<E1>>>>
    /\ k = 2

\* C9 as stated: the search returns exactly 2 of the 3 document ids, each
\* with score 1.0
C9_TwoOfThree ==
    C9_Scenario =>
        /\ result.index[1][1] \in 0..2
        /\ result.index[1][2] \in 0..2
        /\ result.index[1][1] # result.index[1][2]
        /\ result.score[1][1] = One
        /\ result.score[1][2] = One

\* C9 amended: with k = 2 the depth is 1, so the single query token has one
\* hit: the search returns exactly 1 of the 3 document ids with score 1.0
\* and the second column is the padding pair (-1, -inf)
C9_OneOfThree ==
    C9_Scenario =>
        /\ raised = "none"
        /\ result.index[1][1] \in 0..2
        /\ result.score[1][1] = One
        /\ result.index[1][2] = -1
        /\ result.score[1][2] = NegInf

C9_Witness ==
    /\ C9_Scenario
    /\ engine.complete
    /\ result.index[1] = <<0, -1>>
    /\ result.score[1] = <<One, NegInf>>

----------------------------------------------------------------------------
(* Steps 4 to 9 of _search_batch as a function of the candidate array.     *)
(* emb2pid has no negative entry, so inside a search every candidate row   *)
(* holds at least one valid id; the scoring steps are therefore also run   *)
(* on candidate arrays drawn from bounded sets, all-sentinel rows included. *)

\* rows of the shape _get_unique_pids produces: ascending distinct ids,
\* filled with -1 up to the width
CandidateRows(vecs, width) ==
    {PadRight(SortedSeq(S), width, -1) :
        S \in {T \in SUBSET (0..(NumDocs(vecs) - 1)) : Cardinality(T) <= width}}

InitScore ==
    /\ vectors \in Corpora
    /\ in_memory \in BOOLEAN
    /\ engine = [tie |-> "low", complete |-> TRUE]
    /\ emb2pid = build_emb2pid_from_vectors(vectors)
    /\ emb2pid_builds = 1
    /\ pc = "candidates"
    /\ k \in 1..MaxK
    /\ q_vectors \in {Q \in QueryBatches : Len(Q) = 1}
    /\ tok_indices = <<>>
    /\ \E width \in 1..NumDocs(vectors) :
          pids \in [DOMAIN q_vectors -> CandidateRows(vectors, width)]
    /\ scores = <<>>
    /\ result = NoResult
    /\ raised = "none"
    /\ index_searched = FALSE
    /\ NoCombination
    /\ NoFetch
    /\ NoScript
    /\ NoTokEngine
    /\ NoCtor

ScoreCandidates ==
    /\ pc = "candidates"
    /\ ScoreAndPack(q_vectors, pids, k)
    /\ pc' = "done"
    /\ UNCHANGED <<indexVars, emb2pid, emb2pid_builds, k, q_vectors, tok_indices, index_searched,
                   unionVars, fetchVars, scriptVars, tokEngineVars, ctorVars>>

NextScore == ScoreCandidates

SpecScore == InitScore /\ [][NextScore]_vars

\* C5: every candidate position holding the sentinel -1 gets score -inf
\* whatever document vectors were gathered for it, and a query whose
\* candidates are all sentinels gets a row of -inf scores and a result row
\* of (-1, -inf) pairs, no exception being raised
C5_SentinelScores ==
    pc = "done" =>
        /\ raised = "none"
        /\ \A i \in Queries :
              /\ \A c \in DOMAIN pids[i] : pids[i][c] = -1 => scores[i][c] = NegInf
              /\ ValidIds(pids[i]) = {} =>
                    /\ \A c \in DOMAIN scores[i] : scores[i][c] = NegInf
                    /\ \A c \in 1..k :
                          result.index[i][c] = -1 /\ result.score[i][c] = NegInf

\* an all-sentinel row whose gathered vectors have a positive similarity
\* to the query
C5_Witness ==
    /\ pc = "done"
    /\ raised = "none"
    /\ \E i \in Queries :
          /\ ValidIds(pids[i]) = {}
          /\ Len(pids[i]) >= 2
          /\ MeanMaxSim(q_vectors[i],
                        retrieve_pid_vectors(pids, vectors, in_memory)[i][1]).val > 0
          /\ \A c \in 1..k : result.index[i][c] = -1 /\ result.score[i][c] = NegInf

----------------------------------------------------------------------------
(* SearchResult.union *)

\* concat_arrays(x, y, dim=1): the rows of x followed by the rows of y
concat_arrays_dim1(x, y) == [i \in DOMAIN x |-> x[i] \o y[i]]

\* mutant of unique_second_dim: the rows are padded without removing duplicates
unique_second_dim_NoUnique(arr, length, fill_token) ==
    [i \in DOMAIN arr |-> pad_to_length(arr[i], length, fill_token)]

\* unique_second_dim, ndarray branch: np.unique of every row (ascending,
\* the -1 of padded rows included), padded with fill_token to length
unique_second_dim(arr, length, fill_token) ==
    [i \in DOMAIN arr |-> pad_to_length(SortedSeq(Range(arr[i])), length, fill_token)]

\* mutant of union: the ids of other are left out
union_SelfOnly(self, other) ==
    IF Len(self.index) # Len(other.index)
    THEN [raised |-> "ValueError", value |-> NoResult]
    ELSE LET new_k == self.k + other.k
             new_index == unique_second_dim(self.index, new_k, -1)
         IN  SearchResultInit(new_index, <<>>, FALSE, new_k)

\* self.union(other)
union(self, other) ==
    IF Len(self.index) # Len(other.index)
    THEN [raised |-> "ValueError", value |-> NoResult]
    ELSE LET new_k == self.k + other.k
             new_index == unique_second_dim(concat_arrays_dim1(self.index, other.index),
                                            new_k, -1)
         IN  SearchResultInit(new_index, <<>>, FALSE, new_k)

\* index arrays of SearchResults over Q queries of width kk: ids of the
\* documents of the corpus, or -1
IndexArrays(Q, kk) == [1..Q -> [1..kk -> (-1)..(NumDocs(CorpusSame) - 2)]]

\* the shapes <<Qa, k1, Qb, k2>> of two operands of at most MaxUnionCells entries
UnionShapes ==
    {s \in (1..MaxUnionCells) \X (1..MaxUnionCells) \X (1..MaxUnionCells) \X (1..MaxUnionCells) :
        s[1] * s[2] + s[3] * s[4] <= MaxUnionCells}

\* a SearchResult whose valid entries all have the score val
Operand(index, kk, val) ==
    SearchResultInit(index,
                     [i \in DOMAIN index |-> [c \in DOMAIN index[i] |->
                         IF index[i][c] < 0 THEN NegInf ELSE Fin(val)]],
                     TRUE, kk).value

InitUnion ==
    /\ vectors = CorpusSame
    /\ in_memory = TRUE
    /\ engine = [tie |-> "low", complete |-> TRUE]
    /\ emb2pid = <<>>
    /\ emb2pid_builds = 0
    /\ pc = "idle"
    /\ k = 0
    /\ q_vectors = <<>>
    /\ tok_indices = <<>>
    /\ pids = <<>>
    /\ scores = <<>>
    /\ result = NoResult
    /\ raised = "none"
    /\ index_searched = FALSE
    /\ \E s \in UnionShapes :
          /\ a \in {Operand(ia, s[2], ScoreUnit) : ia \in IndexArrays(s[1], s[2])}
          /\ b \in {Operand(ib, s[4], 2 * ScoreUnit) : ib \in IndexArrays(s[3], s[4])}
    /\ third = NoResult
    /\ u = NoResult
    /\ chain = <<>>
    /\ NoFetch
    /\ NoScript
    /\ NoTokEngine
    /\ NoCtor

Union ==
    /\ pc = "idle"
    /\ LET r == union(a, b)
       IN  /\ u' = r.value
           /\ raised' = r.raised
    /\ pc' = "done"
    /\ UNCHANGED <<indexVars, emb2pid, emb2pid_builds, k, q_vectors, tok_indices, pids, scores,
                   result, index_searched, a, b, third, chain, fetchVars, scriptVars, tokEngineVars, ctorVars>>

\* concat_arrays(x, y): the rows of x followed by the rows of y; arrays of
\* different widths cannot be stacked
concat_arrays_dim0(x, y) == x \o y

\* self + other (__add__): the arrays of other are appended to the arrays of
\* self, self.k is kept, and self is returned
Add ==
    /\ pc = "idle"
    /\ IF a.k # b.k
       THEN /\ raised' = "ValueError"
            /\ a' = a
            /\ u' = NoResult
       ELSE /\ raised' = "none"
            /\ a' = [a EXCEPT !.score = concat_arrays_dim0(a.score, b.score),
                              !.index = concat_arrays_dim0(a.index, b.index)]
            /\ u' = a'
    /\ pc' = "added"
    /\ UNCHANGED <<indexVars, emb2pid, emb2pid_builds, k, q_vectors, tok_indices, pids, scores,
                   result, index_searched, b, third, chain, fetchVars, scriptVars, tokEngineVars, ctorVars>>

NextUnion == Union \/ Add

SpecUnion == InitUnion /\ [][NextUnion]_vars

\* number of positions of row holding id
Occurrences(row, id) == Cardinality({c \in DOMAIN row : row[c] = id})

\* C10: the union of two SearchResults of widths k1 and k2 over the same Q
\* queries has width k1 + k2; in every row each valid id of either operand's
\* row appears exactly once, no other valid id appears, and the remaining
\* positions hold the padding id -1
C10_UnionIds ==
    (pc = "done" /\ Len(a.index) = Len(b.index)) =>
        /\ raised = "none"
        /\ u.k = a.k + b.k
        /\ Len(u.index) = Len(a.index)
        /\ Len(u.score) = Len(a.index)
        /\ \A i \in DOMAIN u.index :
              /\ Len(u.index[i]) = a.k + b.k
              /\ Len(u.score[i]) = a.k + b.k
              /\ ValidIds(u.index[i]) = ValidIds(a.index[i]) \cup ValidIds(b.index[i])
              /\ \A id \in ValidIds(u.index[i]) : Occurrences(u.index[i], id) = 1
              /\ \A c \in DOMAIN u.index[i] : u.index[i][c] >= -1

\* an id present in both operands, another repeated inside one operand, and
\* padding in both operands
C10_Witness ==
    /\ pc = "done"
    /\ raised = "none"
    /\ Len(a.index) = 2
    /\ a.index[1] = <<0, 0>>
    /\ b.index[1] = <<0>>
    /\ u.index[1] = <<0, -1, -1>>
    /\ a.index[2] = <<-1, 1>>
    /\ b.index[2] = <<0>>
    /\ u.index[2] = <<-1, 0, 1>>

----------------------------------------------------------------------------
(* Chains of unions of three SearchResults over the same query batch *)

\* the shapes <<Q, k1, k2, k3>> of three operands of at most MaxUnionCells
\* entries over the same Q queries
ChainShapes ==
    {s \in (1..MaxUnionCells) \X (1..MaxUnionCells) \X (1..MaxUnionCells) \X (1..MaxUnionCells) :
        s[1] * (s[2] + s[3] + s[4]) <= MaxUnionCells}

InitUnion3 ==
    /\ vectors = CorpusSame
    /\ in_memory = TRUE
    /\ engine = [tie |-> "low", complete |-> TRUE]
    /\ emb2pid = <<>>
    /\ emb2pid_builds = 0
    /\ pc = "idle"
    /\ k = 0
    /\ q_vectors = <<>>
    /\ tok_indices = <<>>
    /\ pids = <<>>
    /\ scores = <<>>
    /\ result = NoResult
    /\ raised = "none"
    /\ index_searched = FALSE
    /\ \E s \in ChainShapes :
          /\ a \in {Operand(ia, s[2], ScoreUnit) : ia \in IndexArrays(s[1], s[2])}
          /\ b \in {Operand(ib, s[3], 2 * ScoreUnit) : ib \in IndexArrays(s[1], s[3])}
          /\ third \in {Operand(ic, s[4], 3 * ScoreUnit) : ic \in IndexArrays(s[1], s[4])}
    /\ u = NoResult
    /\ chain = <<>>
    /\ NoFetch
    /\ NoScript
    /\ NoTokEngine
    /\ NoCtor

\* a.union(b), b.union(a), a.union(b).union(third), a.union(b.union(third))
UnionChain ==
    /\ pc = "idle"
    /\ LET ab == union(a, b)
           ba == union(b, a)
           bc == union(b, third)
           ab_c == union(ab.value, third)
           a_bc == union(a, bc.value)
       IN  /\ chain' = [ab |-> ab.value, ba |-> ba.value,
                        ab_c |-> ab_c.value, a_bc |-> a_bc.value]
           /\ raised' = IF {ab.raised, ba.raised, bc.raised, ab_c.raised, a_bc.raised} = {"none"}
                        THEN "none" ELSE "ValueError"
    /\ pc' = "chained"
    /\ UNCHANGED <<indexVars, emb2pid, emb2pid_builds, k, q_vectors, tok_indices, pids, scores,
                   result, index_searched, a, b, third, u, fetchVars, scriptVars, tokEngineVars, ctorVars>>

NextUnion3 == UnionChain

SpecUnion3 == InitUnion3 /\ [][NextUnion3]_vars

\* C11: union is commutative and associative on the set of document ids:
\* every row of a.union(b) holds the same valid ids as the row of
\* b.union(a), and every row of a.union(b).union(c) the same valid ids as
\* the row of a.union(b.union(c))
C11_UnionCommAssoc ==
    pc = "chained" =>
        /\ raised = "none"
        /\ \A i \in DOMAIN a.index :
              /\ ValidIds(chain.ab.index[i]) = ValidIds(chain.ba.index[i])
              /\ ValidIds(chain.ab_c.index[i]) = ValidIds(chain.a_bc.index[i])
              /\ ValidIds(chain.ab_c.index[i]) =
                    ValidIds(a.index[i]) \cup ValidIds(b.index[i]) \cup ValidIds(third.index[i])

\* three operands of different widths with different id sets, padding and
\* an id shared by two of them
C11_Witness ==
    /\ pc = "chained"
    /\ a.index = <<<<1, 0>>>>
    /\ b.index = <<<<-1>>>>
    /\ third.index = <<<<1, -1, 1>>>>
    /\ chain.ab.index = <<<<-1, 0, 1>>>>
    /\ chain.ba.index = <<<<-1, 0, 1>>>>
    /\ chain.ab_c.index = <<<<-1, 0, 1, -1, -1, -1>>>>
    /\ chain.a_bc.index = <<<<-1, 0, 1, -1, -1, -1>>>>

----------------------------------------------------------------------------
(* Scores and immutability of combined SearchResults (SpecUnion) *)

\* the scores attached to id in row i of the SearchResult r
SourceScores(r, i, id) == {r.score[i][x] : x \in {y \in DOMAIN r.index[i] : r.index[i][y] = id}}

\* the largest score of a non-empty set of scores
ScoreMax(S) == CHOOSE x \in S : \A y \in S : ScoreGe(x, y)

\* C12: in the result of union the score attached to a document id is the
\* score it had in the operand that contains it, and for an id present in
\* both operands the maximum of its two source scores
C12_UnionScores ==
    (pc = "done" /\ raised = "none") =>
        \A i \in DOMAIN u.index :
            \A x \in DOMAIN u.index[i] :
                u.index[i][x] >= 0 =>
                    u.score[i][x] =
                        ScoreMax(SourceScores(a, i, u.index[i][x])
                                    \cup SourceScores(b, i, u.index[i][x]))

\* C13: in every SearchResult obtained from search or from a union of such
\* results, a position holds the index -1 exactly when its score is -inf
C13_SentinelIffNegInf ==
    (pc = "done" /\ raised = "none") =>
        \A r \in {result, u} :
            \A i \in DOMAIN r.index :
                \A x \in DOMAIN r.index[i] :
                    (r.index[i][x] = -1) <=> (r.score[i][x] = NegInf)

\* C14: a + b and a.union(b) leave the index and score of both operands
\* unchanged
C14_OperandsUnchanged == [][a' = a /\ b' = b]_vars

----------------------------------------------------------------------------
(* The two vector backings (Spec) *)

\* the SearchResults the search can return for the candidates pids when the
\* document vectors are read from the backing inMemory
ResultsWithBacking(inMemory) ==
    LET d_vectors == retrieve_pid_vectors(pids, vectors, inMemory)
        sc        == MaxSimScores(q_vectors, d_vectors, pids)
    IN  {SearchResultInit(Gather(pids, maxsim_idx), Gather(sc, maxsim_idx), TRUE, k).value :
            maxsim_idx \in MaxSimIdx(sc, k)}

\* C15: the tensor backing and the table backing are interchangeable: for
\* the same corpus, query batch and k the index and score arrays a search
\* returns with one backing are index and score arrays of the search with
\* the other backing, candidate rows with -1 padding included
C15_BackingsInterchangeable ==
    pc = "done" =>
        /\ raised = "none"
        /\ result \in ResultsWithBacking(~in_memory)
        /\ ResultsWithBacking(in_memory) = ResultsWithBacking(~in_memory)

\* a search on the table backing with a candidate row padded with -1, the
\* vectors gathered for the padding differing between the two backings and
\* having different similarities to the query
C15_Witness ==
    /\ pc = "done"
    /\ ~in_memory
    /\ vectors = CorpusMixed
    /\ \E i \in Queries : \E x \in DOMAIN pids[i] :
          /\ pids[i][x] = -1
          /\ MeanMaxSim(q_vectors[i], RetrieveFromTable(vectors, pids)[i][x])
                # MeanMaxSim(q_vectors[i], RetrieveFromTensor(vectors, pids)[i][x])
          /\ result.index[i][k] = -1

----------------------------------------------------------------------------
(* FetchDocuments (datamodules/index/pipes.py).  A row of the corpus       *)
(* dataset is identified by the value of its index_key column, which is    *)
(* its position in the dataset.                                            *)

\* corpus_dataset.select(index_i): the rows at the requested positions, in
\* the requested order ("exact"); a select that comes back with the last
\* requested row missing ("short") or with one row too many ("long")
Select(st, index_i) ==
    CASE st = "exact" -> index_i
      [] st = "short" -> SubSeq(index_i, 1, Len(index_i) - 1)
      [] st = "long"  -> index_i \o <<index_i[1]>>

Stores == {"exact", "short", "long"}

\* number of iterations of: for i in range(0, len(indexes), max_chunk_size)
NumChunks(idxs, chunk_size) == (Len(idxs) + chunk_size - 1) \div chunk_size

\* mutant of Chunk: the slice is one id too long
Chunk_Overlap(idxs, chunk_size, j) ==
    SubSeq(idxs, (j - 1) * chunk_size + 1, Min(j * chunk_size + 1, Len(idxs)))

\* index_i = indexes[i : i + max_chunk_size] of the j-th iteration
Chunk(idxs, chunk_size, j) ==
    SubSeq(idxs, (j - 1) * chunk_size + 1, Min(j * chunk_size, Len(idxs)))

\* rows[k] += v over the batches, in the order of the iterations
RECURSIVE ConcatBatches(_)
ConcatBatches(batches) ==
    IF batches = <<>> THEN <<>> ELSE Head(batches) \o ConcatBatches(Tail(batches))

\* _fetch_rows: the select calls made and the rows returned (None when
\* indexes is empty)
fetch_rows(idxs, chunk_size, st) ==
    LET n == NumChunks(idxs, chunk_size)
        sel == [j \in 1..n |-> Chunk(idxs, chunk_size, j)]
        batches == [j \in 1..n |-> Select(st, sel[j])]
    IN  [selects |-> sel,
         rows    |-> IF n = 0 THEN NoRows
                     ELSE [none |-> FALSE, idx |-> ConcatBatches(batches)]]

InitFetch ==
    /\ vectors = CorpusSame
    /\ in_memory = TRUE
    /\ engine = [tie |-> "low", complete |-> TRUE]
    /\ emb2pid = <<>>
    /\ emb2pid_builds = 0
    /\ pc = "idle"
    /\ k = 0
    /\ q_vectors = <<>>
    /\ tok_indices = <<>>
    /\ pids = <<>>
    /\ scores = <<>>
    /\ result = NoResult
    /\ raised = "none"
    /\ index_searched = FALSE
    /\ NoCombination
    /\ indexes \in UNION {[1..n -> 0..MaxRow] : n \in 0..MaxIndexes}
    /\ max_chunk_size \in 1..MaxChunk
    /\ store \in Stores
    /\ selects = <<>>
    /\ rows = NoRows
    /\ fetched = NoRows
    /\ NoScript
    /\ NoTokEngine
    /\ NoCtor

\* FetchDocuments._call_batch
CallBatch ==
    /\ pc = "idle"
    /\ LET r == fetch_rows(indexes, max_chunk_size, store)
       IN  /\ selects' = r.selects
           /\ rows' = r.rows
           /\ IF r.rows.none
              THEN raised' = "TypeError" /\ fetched' = NoRows
              ELSE IF r.rows.idx # indexes
                   THEN raised' = "ValueError" /\ fetched' = NoRows
                   ELSE raised' = "none" /\ fetched' = r.rows
    /\ pc' = "fetched"
    /\ UNCHANGED <<indexVars, emb2pid, emb2pid_builds, k, q_vectors, tok_indices, pids, scores,
                   result, index_searched, unionVars, indexes, max_chunk_size, store,
                   scriptVars, tokEngineVars, ctorVars>>

\* ColbertIndex._retrieve_pid_vectors, table branch, for the flattened pids
\* held in indexes: the unique pids are taken from the table and mapped back
\* with unique_pid_vectors[indices]; no row count is compared
TakeVectors ==
    /\ pc = "idle"
    /\ indexes # <<>>
    /\ LET unique_pids == SortedSeq(Range(indexes))
           clamped == [n \in DOMAIN unique_pids |->
                           IF unique_pids[n] < 0 THEN 0 ELSE unique_pids[n]]
           taken == Select(store, clamped)
           indices == [i \in DOMAIN indexes |-> IndexOf(unique_pids, indexes[i])]
       IN  /\ selects' = <<clamped>>
           /\ rows' = [none |-> FALSE, idx |-> taken]
           /\ IF \E i \in DOMAIN indices : indices[i] > Len(taken)
              THEN raised' = "IndexError" /\ fetched' = NoRows
              ELSE /\ raised' = "none"
                   /\ fetched' = [none |-> FALSE,
                                  idx  |-> [i \in DOMAIN indices |-> taken[indices[i]]]]
    /\ pc' = "taken"
    /\ UNCHANGED <<indexVars, emb2pid, emb2pid_builds, k, q_vectors, tok_indices, pids, scores,
                   result, index_searched, unionVars, indexes, max_chunk_size, store,
                   scriptVars, tokEngineVars, ctorVars>>

NextFetch == CallBatch \/ TakeVectors

SpecFetch == InitFetch /\ [][NextFetch]_vars

\* C16: for any list of requested ids and any maximum chunk size >= 1, no
\* single select requests more than the maximum number of rows, and row i of
\* the concatenated output is the row of requested id i
C16_ChunkedInOrder ==
    pc = "fetched" =>
        /\ \A j \in DOMAIN selects : Len(selects[j]) <= max_chunk_size
        /\ ConcatBatches(selects) = indexes
        /\ (store = "exact" /\ indexes # <<>>) =>
              /\ ~rows.none
              /\ Len(rows.idx) = Len(indexes)
              /\ \A i \in DOMAIN indexes : rows.idx[i] = indexes[i]
              /\ raised = "none"
              /\ fetched = rows

\* four ids with a duplicate, fetched in chunks of at most three rows
C16_Witness ==
    /\ pc = "fetched"
    /\ store = "exact"
    /\ indexes = <<2, 0, 2, 1>>
    /\ max_chunk_size = 3
    /\ selects = <<<<2, 0, 2>>, <<1>>>>
    /\ rows.idx = <<2, 0, 2, 1>>
    /\ raised = "none"

\* C17: a retrieval whose fetched row count differs from the requested id
\* count fails with ShapeMismatchError, and the mismatching rows are not
\* returned to the caller
C17_ShapeMismatchError ==
    (/\ pc \in {"fetched", "taken"}
     /\ ~rows.none
     /\ Len(rows.idx) # Len(ConcatBatches(selects))) =>
        /\ raised = "ShapeMismatchError"
        /\ fetched = NoRows

\* C17 for any exception type: a retrieval whose fetched row count differs
\* from the requested id count fails and returns nothing
C17_AnyError ==
    (/\ pc \in {"fetched", "taken"}
     /\ ~rows.none
     /\ Len(rows.idx) # Len(ConcatBatches(selects))) =>
        /\ raised # "none"
        /\ fetched = NoRows

----------------------------------------------------------------------------
(* Query vectors of the wrong dimension (Spec) *)

\* C18: if the query embeddings have a shape inconsistent with the
\* dimension of the index, search fails with DimensionMismatchError before
\* any call to the search of the ANN engine
C18_FailBeforeAnn ==
    (/\ pc \in {"done", "failed"}
     /\ \E i \in Queries : \E t \in DOMAIN q_vectors[i] : Len(q_vectors[i][t]) # Dim(vectors)) =>
        /\ raised = "DimensionMismatchError"
        /\ ~index_searched

----------------------------------------------------------------------------
(* Missing entries of a search result and of the token hits (Spec) *)

\* C19: when dataset_size is provided to SearchResult, every negative index
\* is replaced by a random index: every index entry is a dataset row in
\* 0 .. dataset_size - 1 and no -1 remains
C19_NoNegativeIndex ==
    (pc = "done" /\ raised = "none") =>
        \A i \in DOMAIN result.index :
            \A x \in DOMAIN result.index[i] :
                result.index[i][x] \in 0..(DatasetSize(vectors) - 1)

\* C20: mapping token slot ids to document ids sends the slot id -1 to the
\* document id -1, never to a valid document id
C20_SentinelSlotToSentinelPid ==
    pc = "done" =>
        \A i \in DOMAIN tok_indices :
            \A x \in DOMAIN tok_indices[i] :
                tok_indices[i][x] = -1 => LookupPids(emb2pid, tok_indices)[i][x] = -1

----------------------------------------------------------------------------
(* The candidate array of a search (Spec) *)

\* the documents owning at least one token hit of query i, the sentinel
\* hits -1 left out
OwnersOfHits(i) ==
    {PyIndex(emb2pid, tok_indices[i][x]) :
        x \in {y \in DOMAIN tok_indices[i] : tok_indices[i][y] # -1}}

\* C21: the candidate row of a query is the set of distinct document ids
\* owning at least one of its token hits: each such id appears exactly
\* once, no other valid id appears, sentinel hits are dropped and -1 occurs
\* only as padding on the right
C21_CandidateRowIsOwnerSet ==
    pc = "done" =>
        \A i \in Queries :
            /\ ValidIds(pids[i]) = OwnersOfHits(i)
            /\ \A id \in ValidIds(pids[i]) : Occurrences(pids[i], id) = 1
            /\ \A x, y \in DOMAIN pids[i] : (x < y /\ pids[i][x] = -1) => pids[i][y] = -1

\* C22: the candidate array of a batch has the uniform width
\* max(k, largest candidate-set size over the queries of the batch)
C22_CandidateWidth ==
    pc = "done" =>
        \A i \in Queries :
            Len(pids[i]) = Max(k, SetMax({Cardinality(ValidIds(pids[j])) : j \in Queries}))

----------------------------------------------------------------------------
(* The depth of the token search (SpecDepth): step 2 of _search_batch for  *)
(* values of k large enough to reach the cap of the depth                  *)

MaxDepthK == 24

InitDepth ==
    /\ vectors = CorpusSame
    /\ in_memory \in BOOLEAN
    /\ engine \in Engines
    /\ emb2pid = <<>>
    /\ emb2pid_builds = 0
    /\ pc = "query"
    /\ k \in 1..MaxDepthK
    /\ q_vectors \in [1..1 -> [1..1 -> QVecs]]
    /\ tok_indices = <<>>
    /\ pids = <<>>
    /\ scores = <<>>
    /\ result = NoResult
    /\ raised = "none"
    /\ index_searched = FALSE
    /\ NoCombination
    /\ NoFetch
    /\ NoScript
    /\ NoTokEngine
    /\ NoCtor

\* step 2 of _search_batch: p = min(10, max(1, k // 2)), then the token
\* index is queried with depth p
QueryTokenIndex ==
    /\ pc = "query"
    /\ tok_indices' = query_to_embedding_ids(vectors, engine, q_vectors, FaissDepth(k))
    /\ index_searched' = TRUE
    /\ pc' = "queried"
    /\ UNCHANGED <<indexVars, emb2pid, emb2pid_builds, k, q_vectors, pids, scores, result,
                   raised, unionVars, fetchVars, scriptVars, tokEngineVars, ctorVars>>

NextDepth == QueryTokenIndex

SpecDepth == InitDepth /\ [][NextDepth]_vars

\* C23: for every k >= 1 the depth passed to the ANN engine, seen as the
\* number of neighbours requested per query token, is max(1, min(10, k // 2))
C23_DepthFormula ==
    pc = "queried" =>
        \A i \in Queries :
            Len(tok_indices[i]) = Len(q_vectors[i]) * Max(1, Min(10, k \div 2))

\* a search with k >= 20 has asked for 10 neighbours per token
C23_Witness ==
    /\ pc = "queried"
    /\ k >= 20
    /\ Len(tok_indices[1]) = 10

----------------------------------------------------------------------------
(* The token-to-document map (SpecMap): the emb2pid property read on       *)
(* indexes of num_docs documents of tokens_per_doc tokens each             *)

MaxDocs == 4

MaxDocTokens == 4

\* corpora of every shape up to MaxDocs documents of MaxDocTokens tokens
ShapedCorpora ==
    {[doc \in 1..n |-> [t \in 1..m |-> IF (doc + t) % 2 = 0 THEN E1 ELSE E2]] :
        n \in 1..MaxDocs, m \in 1..MaxDocTokens}

InitMap ==
    /\ vectors \in ShapedCorpora
    /\ in_memory \in BOOLEAN
    /\ engine \in Engines
    /\ emb2pid = <<>>
    /\ emb2pid_builds = 0
    /\ pc = "idle"
    /\ k = 0
    /\ q_vectors = <<>>
    /\ tok_indices = <<>>
    /\ pids = <<>>
    /\ scores = <<>>
    /\ result = NoResult
    /\ raised = "none"
    /\ index_searched = FALSE
    /\ NoCombination
    /\ NoFetch
    /\ NoScript
    /\ NoTokEngine
    /\ NoCtor

\* a read of the emb2pid property
AccessEmb2pid ==
    /\ pc \in {"idle", "accessed"}
    /\ emb2pid' = Emb2pidProperty
    /\ emb2pid_builds' = emb2pid_builds + (IF Emb2pidBuilt THEN 1 ELSE 0)
    /\ pc' = "accessed"
    /\ UNCHANGED <<indexVars, k, q_vectors, tok_indices, pids, scores, result, raised,
                   index_searched, unionVars, fetchVars, scriptVars, tokEngineVars,
                   ctorVars>>

NextMap == AccessEmb2pid

SpecMap == InitMap /\ [][NextMap]_vars

\* C24: the map built for num_docs documents of tokens_per_doc tokens has
\* num_docs * tokens_per_doc entries, map[slot] = slot // tokens_per_doc for
\* every slot, it is non-decreasing and its values lie in [0, num_docs)
C24_MapIsSlotDivTokens ==
    pc = "accessed" =>
        /\ Len(emb2pid) = NumDocs(vectors) * TokensPerDoc(vectors)
        /\ \A slot \in Slots(vectors) :
               /\ emb2pid[slot + 1] = slot \div TokensPerDoc(vectors)
               /\ emb2pid[slot + 1] \in 0..(NumDocs(vectors) - 1)
        /\ \A x, y \in DOMAIN emb2pid : x <= y => emb2pid[x] <= emb2pid[y]

\* the map of an index of several documents of several tokens has been built
C24_Witness ==
    /\ pc = "accessed"
    /\ NumDocs(vectors) >= 2
    /\ TokensPerDoc(vectors) >= 2
    /\ Len(emb2pid) = NumDocs(vectors) * TokensPerDoc(vectors)

----------------------------------------------------------------------------
(* The cache of the token-to-document map (Spec) *)

\* the map derived from the vectors the index holds
FreshMap(e2p, vecs) ==
    /\ Len(e2p) = NumDocs(vecs) * TokensPerDoc(vecs)
    /\ \A slot \in Slots(vecs) : e2p[slot + 1] = slot \div TokensPerDoc(vecs)

----------------------------------------------------------------------------
(* The indexing script (SpecScript): examples/colbert_index_test.py builds *)
(* an ANN index over the token vectors of the documents, one document at a *)
(* time, keeps the list tok2doc next to it and then searches the index.    *)
(* The ANN index is a library object: add appends the rows it is given, a  *)
(* row receiving as id the number of rows held before it.                  *)

MaxSearches == 2

\* document_representations zipped with batch["document.row_idx"]: documents
\* of one length, their row ids in the order of the corpus
ScriptDocs ==
    {[i \in 1..n |-> [row_idx |-> base + i - 1, tokens |-> m]] :
        n \in 1..MaxDocs, m \in 1..MaxDocTokens, base \in {0, 5}}

\* number of documents the loop has added
NumAdded == Cardinality({i \in DOMAIN calls : calls[i].op = "add"})

InitScript ==
    /\ vectors = <<>>
    /\ in_memory = FALSE
    /\ engine = [tie |-> "low", complete |-> TRUE]
    /\ emb2pid = <<>>
    /\ emb2pid_builds = 0
    /\ pc = "loop"
    /\ k = 0
    /\ q_vectors = <<>>
    /\ tok_indices = <<>>
    /\ pids = <<>>
    /\ scores = <<>>
    /\ result = NoResult
    /\ raised = "none"
    /\ index_searched = FALSE
    /\ NoCombination
    /\ NoFetch
    /\ docs \in ScriptDocs
    /\ ntotal = 0
    /\ tok2doc = <<>>
    /\ calls = <<>>
    /\ NoTokEngine
    /\ NoCtor

\* index.train(doc)
TrainDoc ==
    /\ pc = "loop"
    /\ LET doc == docs[NumAdded + 1]
       IN  calls' = Append(calls, [op |-> "train", doc |-> doc.row_idx,
                                   first |-> ntotal, rows |-> doc.tokens])
    /\ pc' = "trained"
    /\ UNCHANGED <<indexVars, emb2pid, emb2pid_builds, k, q_vectors, tok_indices, pids,
                   scores, result, raised, index_searched, unionVars, fetchVars, docs,
                   ntotal, tok2doc, tokEngineVars, ctorVars>>

\* mutant of LinspaceIds: one entry per document instead of one per token
LinspaceIds_One(idx, num) == <<idx>>

\* np.linspace(idx, idx, num=doc.shape[0], dtype="int32").tolist()
LinspaceIds(idx, num) == [i \in 1..num |-> idx]

\* index.add(doc), then tok2doc is extended with the row id of the document,
\* once per token; the loop ends after the last document
AddDoc ==
    /\ pc = "trained"
    /\ LET doc == docs[NumAdded + 1]
       IN  /\ calls' = Append(calls, [op |-> "add", doc |-> doc.row_idx,
                                      first |-> ntotal, rows |-> doc.tokens])
           /\ ntotal' = ntotal + doc.tokens
           /\ tok2doc' = tok2doc \o LinspaceIds(doc.row_idx, doc.tokens)
    /\ pc' = IF NumAdded + 1 = Len(docs) THEN "built" ELSE "loop"
    /\ UNCHANGED <<indexVars, emb2pid, emb2pid_builds, k, q_vectors, tok_indices, pids,
                   scores, result, raised, index_searched, unionVars, fetchVars, docs,
                   tokEngineVars, ctorVars>>

\* index.search(eg, k) with k = 3, for one query of the batch
SearchQuery ==
    /\ pc \in {"built", "searched"}
    /\ Cardinality({i \in DOMAIN calls : calls[i].op = "search"}) < MaxSearches
    /\ calls' = Append(calls, [op |-> "search", doc |-> -1, first |-> ntotal, rows |-> 0])
    /\ k' = 3
    /\ index_searched' = TRUE
    /\ pc' = "searched"
    /\ UNCHANGED <<indexVars, emb2pid, emb2pid_builds, q_vectors, tok_indices, pids,
                   scores, result, raised, unionVars, fetchVars, docs, ntotal, tok2doc,
                   tokEngineVars, ctorVars>>

NextScript == TrainDoc \/ AddDoc \/ SearchQuery

SpecScript == InitScript /\ [][NextScript]_vars

\* the add calls made so far, in order
AddCalls == SelectSeq(calls, LAMBDA call : call.op = "add")

\* C25: after every add of the incremental build, tok2doc has as many
\* entries as the index holds vectors, the slots of successive adds are
\* contiguous and in insertion order, and the entry of every slot is the
\* id of the document whose add inserted it
C25_Tok2docFollowsAdds ==
    pc \in {"loop", "built", "searched"} =>
        /\ Len(tok2doc) = ntotal
        /\ \A j \in DOMAIN AddCalls :
               /\ AddCalls[j].first = IF j = 1 THEN 0
                                       ELSE AddCalls[j - 1].first + AddCalls[j - 1].rows
               /\ AddCalls[j].doc = docs[j].row_idx
               /\ \A slot \in AddCalls[j].first..(AddCalls[j].first + AddCalls[j].rows - 1) :
                      /\ slot < Len(tok2doc)
                      /\ tok2doc[slot + 1] = AddCalls[j].doc

\* several documents of several tokens have been added
C25_Witness ==
    /\ pc = "loop"
    /\ Len(AddCalls) >= 2
    /\ docs[1].tokens >= 2
    /\ Len(tok2doc) = ntotal
    /\ ntotal = 2 * docs[1].tokens

\* C26: within one build every train comes before the first add, train is
\* never called once vectors have been added, and no search is issued
\* before the last add and the derivation of the map
C26_TrainBeforeAddBeforeSearch ==
    /\ \A i, j \in DOMAIN calls :
           (i < j /\ calls[i].op = "add") => calls[j].op # "train"
    /\ \A i \in DOMAIN calls :
           calls[i].op = "search" =>
               /\ Cardinality({j \in 1..(i - 1) : calls[j].op = "add"}) = Len(docs)
               /\ Len(tok2doc) = ntotal

----------------------------------------------------------------------------
(* FaissTokenEngine.search (SpecDedup): the token index is queried, the    *)
(* token hits are mapped to passage ids, the ids are deduplicated with     *)
(* their scores summed, and the result is cut to self.k columns            *)

MaxP == 2

\* utils.io.build_emb2pid_from_vectors: the passage of every token slot
io_build_emb2pid_from_vectors(vecs) ==
    [s \in 1..(NumDocs(vecs) * TokensPerDoc(vecs)) |-> (s - 1) \div TokensPerDoc(vecs)]

\* score returned by index.search with a hit: the inner product of the query
\* vector and the stored vector, -inf where no neighbour was found
HitScore(vecs, x, id) ==
    IF id = -1 THEN NegInf ELSE Fin(ScoreUnit * Dot(x, SlotVector(vecs, id)))

\* _query_to_token_ids: every token vector is searched with depth
\* faiss_depth; a token vector of zeros is padding, its ids are -1 and its
\* scores -inf; ids and scores are viewed as [num_queries, -1]
query_to_token_ids(vecs, eng, Q, faiss_depth) ==
    LET x(i, c) == Q[i][((c - 1) \div faiss_depth) + 1]
        id(i, c) ==
            IF IsPadding(x(i, c)) THEN -1
            ELSE IndexSearch(vecs, eng, x(i, c), faiss_depth)[((c - 1) % faiss_depth) + 1]
    IN  [ids |-> [i \in DOMAIN Q |->
                     [c \in 1..(Len(Q[i]) * faiss_depth) |-> id(i, c)]],
         scores |-> [i \in DOMAIN Q |->
                     [c \in 1..(Len(Q[i]) * faiss_depth) |->
                         HitScore(vecs, x(i, c), id(i, c))]]]

\* sum of two scores, none of them +inf
ScoreAdd(x, y) == IF x.fin /\ y.fin THEN Fin(x.val + y.val) ELSE NegInf

\* mutant of IndexAddStep: the score replaces the accumulated one instead
\* of being added to it
IndexAddStep_Overwrite(acc, j, v) == [acc EXCEPT ![j] = v]

\* one step of index_add_: the score v is added to acc[j]
IndexAddStep(acc, j, v) == [acc EXCEPT ![j] = ScoreAdd(@, v)]

\* acc.index_add_(0, index, source): source[c] is added to acc[index[c]]
RECURSIVE index_add(_, _, _)
index_add(acc, index, source) ==
    IF source = <<>> THEN acc
    ELSE index_add(IndexAddStep(acc, Head(index), Head(source)),
                   Tail(index), Tail(source))

\* the body of the loop of _deduplicate_pids for one query: the outcomes
\* [pids, scores], one per order torch.argsort may return
DeduplicateRow(qpids, qscores) ==
    LET q_unique_pids == SortedSeq(Range(qpids))
        upids_inv     == [c \in DOMAIN qpids |-> IndexOf(q_unique_pids, qpids[c])]
        q_sum_scores  == index_add([j \in DOMAIN q_unique_pids |-> Fin(0)],
                                   upids_inv, qscores)
    IN  {[pids   |-> [c \in DOMAIN idx |-> q_unique_pids[idx[c]]],
          scores |-> [c \in DOMAIN idx |-> q_sum_scores[idx[c]]]] :
            idx \in ArgsortDescending(q_sum_scores)}

\* _deduplicate_pids: the rows are deduplicated one by one, padded to the
\* longest of them with -1 and -inf, and stacked
deduplicate_pids(sc, p) ==
    LET outcomes == [i \in DOMAIN p |-> DeduplicateRow(p[i], sc[i])]
        rows_of  == {g \in [DOMAIN p -> UNION {outcomes[i] : i \in DOMAIN p}] :
                        \A i \in DOMAIN p : g[i] \in outcomes[i]}
    IN  {LET max_length == SetMax({Len(g[i].pids) : i \in DOMAIN p})
         IN  [pids   |-> [i \in DOMAIN p |-> PadRight(g[i].pids, max_length, -1)],
              scores |-> [i \in DOMAIN p |-> PadRight(g[i].scores, max_length, NegInf)]] :
            g \in rows_of}

InitDedup ==
    /\ vectors \in Corpora
    /\ in_memory = TRUE
    /\ engine \in Engines
    /\ emb2pid = <<>>
    /\ emb2pid_builds = 0
    /\ pc = "idle"
    /\ k \in 1..MaxK
    /\ q_vectors = <<>>
    /\ tok_indices = <<>>
    /\ pids = <<>>
    /\ scores = <<>>
    /\ result = NoResult
    /\ raised = "none"
    /\ index_searched = FALSE
    /\ NoCombination
    /\ NoFetch
    /\ NoScript
    /\ tok_engine = [emb2pid |-> [none |-> FALSE, map |-> io_build_emb2pid_from_vectors(vectors)],
                     index_up |-> TRUE]
    /\ disk = [saved |-> FALSE, emb2pid |-> NoMap, index_up |-> FALSE]
    /\ tok_hits = NoHits
    /\ dedup = NoHits
    /\ NoCtor

\* FaissTokenEngine.search, self.k being k and self.config["p"] being p
TokenSearch ==
    /\ pc = "idle"
    /\ \E p \in 1..MaxP, Q \in QueryBatches :
        \E found \in {query_to_token_ids(vectors, engine, Q, p)} :
        \E hits \in {[pids   |-> LookupPids(tok_engine.emb2pid.map, found.ids),
                       scores |-> found.scores]} :
            \E out \in deduplicate_pids(hits.scores, hits.pids) :
                /\ q_vectors' = Q
                /\ tok_indices' = found.ids
                /\ tok_hits' = hits
                /\ dedup' = out
                /\ result' = [index |-> [i \in DOMAIN out.pids |-> TakeColumns(out.pids[i], k)],
                              score |-> [i \in DOMAIN out.scores |-> TakeColumns(out.scores[i], k)],
                              k     |-> k]
    /\ index_searched' = TRUE
    /\ pc' = "token_searched"
    /\ UNCHANGED <<indexVars, emb2pid, emb2pid_builds, k, pids, scores, raised, unionVars,
                   fetchVars, scriptVars, tok_engine, disk, ctorVars>>

NextDedup == TokenSearch

SpecDedup == InitDedup /\ [][NextDedup]_vars

\* the token hits of query i that were mapped to passage id
HitsOf(i, id) == {x \in DOMAIN tok_hits.pids[i] : tok_hits.pids[i][x] = id}

\* the summed score of the token hits of query i mapped to passage id
SummedScore(i, id) ==
    IF \E x \in HitsOf(i, id) : ~tok_hits.scores[i][x].fin THEN NegInf
    ELSE Fin(SumSeq([x \in DOMAIN tok_hits.pids[i] |->
                        IF x \in HitsOf(i, id) THEN tok_hits.scores[i][x].val ELSE 0]))

\* number of distinct passage ids among the token hits of query i
NumDistinct(i) == Cardinality(Range(tok_hits.pids[i]))

\* C28: _deduplicate_pids returns for each query every distinct passage id
\* of its token hits exactly once, with the sum of the scores of the hits
\* mapped to that id, in order of non-increasing summed score, the shorter
\* rows padded on the right with (-1, -inf); search returns the leading
\* columns of that ordering, at most self.k of them
C28_DeduplicateSumsAndSorts ==
    pc = "token_searched" =>
        \A i \in DOMAIN dedup.pids :
            /\ Len(dedup.pids[i]) = SetMax({NumDistinct(j) : j \in DOMAIN dedup.pids})
            /\ Len(dedup.scores[i]) = Len(dedup.pids[i])
            /\ {dedup.pids[i][c] : c \in 1..NumDistinct(i)} = Range(tok_hits.pids[i])
            /\ \A c \in 1..NumDistinct(i) :
                   dedup.scores[i][c] = SummedScore(i, dedup.pids[i][c])
            /\ \A c, e \in 1..NumDistinct(i) :
                   c < e => ScoreGe(dedup.scores[i][c], dedup.scores[i][e])
            /\ \A c \in (NumDistinct(i) + 1)..Len(dedup.pids[i]) :
                   dedup.pids[i][c] = -1 /\ dedup.scores[i][c] = NegInf
            /\ Len(result.index[i]) = Min(k, Len(dedup.pids[i]))
            /\ result.index[i] = SubSeq(dedup.pids[i], 1, Len(result.index[i]))
            /\ result.score[i] = SubSeq(dedup.scores[i], 1, Len(result.index[i]))

\* a query whose token hits fall several times on one passage, next to a
\* query with fewer distinct passages, the result being cut to self.k
C28_Witness ==
    /\ pc = "token_searched"
    /\ Len(tok_hits.pids) = 2
    /\ \E id \in Range(tok_hits.pids[1]) :
           /\ Cardinality(HitsOf(1, id)) >= 2
           /\ SummedScore(1, id).fin
           /\ SummedScore(1, id).val >= 2 * ScoreUnit
    /\ NumDistinct(1) > NumDistinct(2)
    /\ Len(dedup.pids[1]) > k

----------------------------------------------------------------------------
(* SearchResult constructed without scores (SpecConstruct): the index is   *)
(* given as a nested list, a numpy array or a tensor of the width k, as    *)
(* union gives it                                                          *)

MaxCtorCells == 4

\* index arrays of at most MaxQ rows and MaxCtorCells cells, -1 being the
\* missing result
CtorIndexes ==
    UNION {[1..s[1] -> [1..s[2] -> (-1)..1]] :
              s \in {t \in (1..MaxQ) \X (1..MaxCtorCells) : t[1] * t[2] <= MaxCtorCells}}

\* masked_fill of a nested list with the default condition: the condition
\* holds of every element, so a list with an element is rewritten by
\* _replace, which gives new_value for a negative element and the element
\* itself otherwise
masked_fill_list(arr, new_value) ==
    IF \E i \in DOMAIN arr : arr[i] # <<>>
    THEN [i \in DOMAIN arr |->
             [c \in DOMAIN arr[i] |->
                 IF arr[i][c] < 0 THEN new_value ELSE Fin(ScoreUnit * arr[i][c])]]
    ELSE arr

\* score = masked_fill(deepcopy(index), new_value=0) for every type of the
\* index: the outcomes [raised, score].  For a tensor the condition handed
\* to torch.where is the Python value True, which the library either
\* broadcasts or rejects.
DefaultScores(index, format) ==
    CASE format = "list"    -> {[raised |-> "none", score |-> masked_fill_list(index, Fin(0))]}
      [] format = "ndarray" -> {[raised |-> "none", score |-> masked_fill(index, Fin(0))]}
      [] format = "tensor"  -> {[raised |-> "none", score |-> masked_fill(index, Fin(0))],
                                [raised |-> "TypeError", score |-> <<>>]}

InitConstruct ==
    /\ vectors = CorpusSame
    /\ in_memory = TRUE
    /\ engine = [tie |-> "low", complete |-> TRUE]
    /\ emb2pid = <<>>
    /\ emb2pid_builds = 0
    /\ pc = "idle"
    /\ k = 0
    /\ q_vectors = <<>>
    /\ tok_indices = <<>>
    /\ pids = <<>>
    /\ scores = <<>>
    /\ result = NoResult
    /\ raised = "none"
    /\ index_searched = FALSE
    /\ NoCombination
    /\ NoFetch
    /\ NoScript
    /\ NoTokEngine
    /\ NoCtor

\* SearchResult(index=index, score=None, k=k) with k the width of index
Construct ==
    /\ pc = "idle"
    /\ \E index \in CtorIndexes, format \in {"list", "ndarray", "tensor"} :
        \E sc \in DefaultScores(index, format) :
            LET kk == Len(index[1])
            IN  /\ ctor_index' = index
                /\ ctor_format' = format
                /\ k' = kk
                /\ raised' = sc.raised
                /\ result' = IF sc.raised # "none" THEN NoResult
                              ELSE [index |-> pad_second_dim(index, kk, -1),
                                    score |-> pad_second_dim(sc.score, kk, NegInf),
                                    k     |-> kk]
    /\ pc' = "constructed"
    /\ UNCHANGED <<indexVars, emb2pid, emb2pid_builds, q_vectors, tok_indices, pids,
                   scores, index_searched, unionVars, fetchVars, scriptVars,
                   tokEngineVars>>

NextConstruct == Construct

SpecConstruct == InitConstruct /\ [][NextConstruct]_vars

\* C29: a SearchResult constructed without scores has the score 0 at every
\* position, whatever the type of the index it was given
C29_DefaultScoreZero ==
    (pc = "constructed" /\ raised = "none") =>
        \A i \in DOMAIN result.score :
            \A x \in DOMAIN result.score[i] : result.score[i][x] = Fin(0)

----------------------------------------------------------------------------
(* The life cycle of FaissTokenEngine (SpecEngine): build, save,           *)
(* free_memory and load in any order.  The parent FaissEngine holds the    *)
(* ANN index: its build and load bring the index into memory, its          *)
(* free_memory drops it, its save writes it under self.path, and its is_up *)
(* tells whether the index is in memory.                                   *)

\* FaissEngine.is_up
FaissEngineIsUp(eng) == eng.index_up

\* FaissEngine.save on an engine whose index is not in memory either
\* raises or writes the absent index
FaissEngineSaveOutcomes(eng) == IF eng.index_up THEN {"none"} ELSE {"none", "Error"}

\* is_up: super().is_up and self.emb2pid is not None
IsUp(eng) == FaissEngineIsUp(eng) /\ ~eng.emb2pid.none

InitEngine ==
    /\ vectors \in ShapedCorpora
    /\ in_memory = TRUE
    /\ engine = [tie |-> "low", complete |-> TRUE]
    /\ emb2pid = <<>>
    /\ emb2pid_builds = 0
    /\ pc = "idle"
    /\ k = 0
    /\ q_vectors = <<>>
    /\ tok_indices = <<>>
    /\ pids = <<>>
    /\ scores = <<>>
    /\ result = NoResult
    /\ raised = "none"
    /\ index_searched = FALSE
    /\ NoCombination
    /\ NoFetch
    /\ NoScript
    /\ NoTokEngine
    /\ NoCtor

\* _build: the map is derived from the vectors, then the parent builds the
\* ANN index over the flattened vectors
TokBuild ==
    /\ \E vecs \in ShapedCorpora :
        /\ vectors' = vecs
        /\ tok_engine' = [emb2pid  |-> [none |-> FALSE,
                                        map  |-> io_build_emb2pid_from_vectors(vecs)],
                          index_up |-> TRUE]
    /\ raised' = "none"
    /\ pc' = "built"
    /\ UNCHANGED <<in_memory, engine, emb2pid, emb2pid_builds, k, q_vectors, tok_indices,
                   pids, scores, result, index_searched, unionVars, fetchVars, scriptVars,
                   disk, tok_hits, dedup, ctorVars>>

\* save: the parent saves the ANN index, then torch.save(self.emb2pid, path)
TokSave ==
    /\ \E outcome \in FaissEngineSaveOutcomes(tok_engine) :
        /\ raised' = outcome
        /\ disk' = IF outcome = "none"
                   THEN [saved |-> TRUE, emb2pid |-> tok_engine.emb2pid,
                         index_up |-> tok_engine.index_up]
                   ELSE disk
        /\ pc' = IF outcome = "none" THEN "saved" ELSE "save_failed"
    /\ UNCHANGED <<indexVars, emb2pid, emb2pid_builds, k, q_vectors, tok_indices, pids,
                   scores, result, index_searched, unionVars, fetchVars, scriptVars,
                   tok_engine, tok_hits, dedup, ctorVars>>

\* free_memory: the parent drops the ANN index, then self.emb2pid = None
TokFreeMemory ==
    /\ tok_engine' = [emb2pid |-> NoMap, index_up |-> FALSE]
    /\ raised' = "none"
    /\ pc' = "freed"
    /\ UNCHANGED <<indexVars, emb2pid, emb2pid_builds, k, q_vectors, tok_indices, pids,
                   scores, result, index_searched, unionVars, fetchVars, scriptVars,
                   disk, tok_hits, dedup, ctorVars>>

\* mutant of LoadEmb2pid: load keeps the map the engine holds
LoadEmb2pid_Keep(eng, dsk) == eng.emb2pid

\* self.emb2pid = torch.load(self.emb2pid_path.as_posix())
LoadEmb2pid(eng, dsk) == dsk.emb2pid

\* load: the parent loads the ANN index, then the map is read from the
\* file save wrote; with nothing saved the files are missing and load raises
TokLoad ==
    /\ IF disk.saved
       THEN /\ tok_engine' = [emb2pid  |-> LoadEmb2pid(tok_engine, disk),
                              index_up |-> disk.index_up]
            /\ raised' = "none"
            /\ pc' = "loaded"
       ELSE /\ tok_engine' = tok_engine
            /\ raised' = "FileNotFoundError"
            /\ pc' = "load_failed"
    /\ UNCHANGED <<indexVars, emb2pid, emb2pid_builds, k, q_vectors, tok_indices, pids,
                   scores, result, index_searched, unionVars, fetchVars, scriptVars,
                   disk, tok_hits, dedup, ctorVars>>

NextEngine == TokBuild \/ TokSave \/ TokFreeMemory \/ TokLoad

SpecEngine == InitEngine /\ [][NextEngine]_vars

\* C30: over any sequence of build, save, free_memory and load, is_up holds
\* only while the map is set, it is false after free_memory and stays false
\* until build or load runs, save writes the map the engine holds, nothing
\* but save changes what is written, and load restores the written map
C30_IsUpFollowsMap ==
    [][/\ IsUp(tok_engine') => tok_engine'.emb2pid.map # <<>>
       /\ pc' = "freed" => ~IsUp(tok_engine')
       /\ (~IsUp(tok_engine) /\ pc' \notin {"built", "loaded"}) => ~IsUp(tok_engine')
       /\ pc' = "saved" => disk'.emb2pid = tok_engine.emb2pid
       /\ pc' # "saved" => disk' = disk
       /\ pc' = "loaded" => tok_engine'.emb2pid = disk.emb2pid]_vars

\* load has restored a saved map of several documents of several tokens,
\* which is not the map of the vectors the engine was last built over
C30_Witness ==
    /\ pc = "loaded"
    /\ IsUp(tok_engine)
    /\ tok_engine.emb2pid = disk.emb2pid
    /\ tok_engine.emb2pid.map # io_build_emb2pid_from_vectors(vectors)
    /\ Len(tok_engine.emb2pid.map) >= 4

====
